---- MODULE Spec2Model ----
(***************************************************************************)
(* Client-side group membership coordinator (kafka/coordinator/base.py):   *)
(* BaseCoordinator and its HeartbeatTask, driven by a single poll thread.  *)
(*                                                                         *)
(* The caller's position (pc) is always either "idle", a suspension point  *)
(* (a client.poll(...) inside a blocking call) or a position between two   *)
(* suspension points.  Broker replies, connection events, scheduler        *)
(* firings and the passage of time happen only at "idle" (the application  *)
(* polls the client) and at suspension points.                             *)
(*                                                                         *)
(* Time is kept as elapsed time: send_age = now - lastSend and             *)
(* receive_age = now - lastReceive, saturating at the thresholds they are  *)
(* compared with; a scheduler entry is the delay left until it is due.     *)
(***************************************************************************)
EXTENDS Integers, Sequences, FiniteSets, TLC

\* ---------------------------------------------------------------- bounds
MaxGen == 1
HeartbeatInterval == 1
SessionTimeout == 2
RetryBackoff == 1
MaxScheduled == 2
MaxInFlight == 3
\* error codes looked up: -MaxCode .. MaxCode
MaxCode == 64

\* ------------------------------------------------------------- constants
DEFAULT_GENERATION_ID == -1
UNKNOWN_MEMBER_ID == ""
None == 0

Nodes == {7}
Members == {"m1", "m2"}
Protocols == {"range", "roundrobin"}
Assignments == {"a1", "a2"}
Generations == 0..MaxGen
\* the error codes a broker reply carries here: every code a handler names,
\* and of the others one retriable (7), one that is not (29), one unmapped (99)
Codes == {0, 7, 14, 15, 16, 22, 23, 24, 25, 26, 27, 29, 30, 99}

Min(a, b) == IF a < b THEN a ELSE b
Max(a, b) == IF a > b THEN a ELSE b

\* ------------------------------------------------------ kafka/common.py
\* the BrokerResponseError subclasses with their errno, in the order of
\* inspect.getmembers (sorted by name), as _iter_broker_errors yields them
BrokerErrors ==
  <<
    [name |-> "BrokerNotAvailableError", errno |-> 8],
    [name |-> "ClusterAuthorizationFailedError", errno |-> 31],
    [name |-> "GroupAuthorizationFailedError", errno |-> 30],
    [name |-> "GroupCoordinatorNotAvailableError", errno |-> 15],
    [name |-> "GroupLoadInProgressError", errno |-> 14],
    [name |-> "IllegalGenerationError", errno |-> 22],
    [name |-> "InconsistentGroupProtocolError", errno |-> 23],
    [name |-> "InvalidCommitOffsetSizeError", errno |-> 28],
    [name |-> "InvalidFetchRequestError", errno |-> 4],
    [name |-> "InvalidGroupIdError", errno |-> 24],
    [name |-> "InvalidMessageError", errno |-> 2],
    [name |-> "InvalidRequiredAcksError", errno |-> 21],
    [name |-> "InvalidSessionTimeoutError", errno |-> 26],
    [name |-> "InvalidTopicError", errno |-> 17],
    [name |-> "LeaderNotAvailableError", errno |-> 5],
    [name |-> "MessageSizeTooLargeError", errno |-> 10],
    [name |-> "NoError", errno |-> 0],
    [name |-> "NotCoordinatorForGroupError", errno |-> 16],
    [name |-> "NotEnoughReplicasAfterAppendError", errno |-> 20],
    [name |-> "NotEnoughReplicasError", errno |-> 19],
    [name |-> "NotLeaderForPartitionError", errno |-> 6],
    [name |-> "OffsetMetadataTooLargeError", errno |-> 12],
    [name |-> "OffsetOutOfRangeError", errno |-> 1],
    [name |-> "RebalanceInProgressError", errno |-> 27],
    [name |-> "RecordListTooLargeError", errno |-> 18],
    [name |-> "ReplicaNotAvailableError", errno |-> 9],
    [name |-> "RequestTimedOutError", errno |-> 7],
    [name |-> "StaleControllerEpochError", errno |-> 11],
    [name |-> "StaleLeaderEpochCodeError", errno |-> 13],
    [name |-> "TopicAuthorizationFailedError", errno |-> 29],
    [name |-> "UnknownError", errno |-> -1],
    [name |-> "UnknownMemberIdError", errno |-> 25],
    [name |-> "UnknownTopicOrPartitionError", errno |-> 3]
  >>

\* dict([(x.errno, x) for x in _iter_broker_errors()]): for an errno that
\* occurs more than once the last pair wins
kafka_errors ==
  [c \in {BrokerErrors[i].errno : i \in DOMAIN BrokerErrors} |->
     BrokerErrors[CHOOSE i \in DOMAIN BrokerErrors :
                    /\ BrokerErrors[i].errno = c
                    /\ \A j \in DOMAIN BrokerErrors :
                         j > i => BrokerErrors[j].errno # c].name]

\* the lookup with NoError for a code that is not in the table
for_code_m(error_code) ==
  IF error_code \in DOMAIN kafka_errors THEN kafka_errors[error_code]
                                        ELSE "NoError"

\* kafka_errors.get(error_code, UnknownError)
for_code(error_code) ==
  IF error_code \in DOMAIN kafka_errors THEN kafka_errors[error_code]
                                        ELSE "UnknownError"

\* the `retriable` classes without the two coordinator errors
RetriableErrors_m ==
  {"NoBrokersAvailable", "NodeNotReadyError", "CorrelationIdError", "Cancelled",
   "TooManyInFlightRequests", "StaleMetadata", "ConnectionError",
   "LeaderNotAvailableError", "NotLeaderForPartitionError",
   "RequestTimedOutError", "GroupLoadInProgressError"}

\* the classes whose `retriable` attribute is True
RetriableErrors ==
  {"NoBrokersAvailable", "NodeNotReadyError", "CorrelationIdError", "Cancelled",
   "TooManyInFlightRequests", "StaleMetadata", "ConnectionError",
   "LeaderNotAvailableError", "NotLeaderForPartitionError",
   "RequestTimedOutError", "GroupLoadInProgressError",
   "GroupCoordinatorNotAvailableError", "NotCoordinatorForGroupError"}

\* Future.retriable(): the exception's `retriable` attribute, False when it
\* has none (an exception raised by _perform_assignment)
Retriable(exception) == exception \in RetriableErrors

\* ----------------------------------------------------------------- state
VARIABLES
  \* BaseCoordinator
  generation, member_id, protocol, coordinator_id, rejoin_needed,
  needs_join_prepare,
  \* Heartbeat (clock)
  send_age, receive_age,
  \* HeartbeatTask and the client's scheduler
  request_in_flight, scheduled,
  \* client transport: the coordinator connection, its in-flight requests
  \* (FIFO), and the GroupCoordinator request sent to the least loaded node
  conn, inflight, disc_in_flight,
  \* the caller: position, who called ensure_coordinator_known, futures
  pc, caller, join_future, disc_future,
  \* observers: what the last step returned/raised to the caller, and the
  \* history the properties speak about
  ret, exc, closes, completed, prepares, join_sent, joined

coordVars == <<generation, member_id, protocol, coordinator_id, rejoin_needed,
               needs_join_prepare>>
clockVars == <<send_age, receive_age>>
taskVars == <<request_in_flight, scheduled>>
netVars == <<conn, inflight, disc_in_flight>>
ctlVars == <<pc, caller, join_future, disc_future>>
histVars == <<completed, prepares, join_sent, joined>>
vars == <<coordVars, clockVars, taskVars, netVars, ctlVars, ret, exc, closes,
          histVars>>

NoFuture == [state |-> "none", val |-> ""]
Pending == [state |-> "pending", val |-> ""]
Succeeded(v) == [state |-> "ok", val |-> v]
Failed(e) == [state |-> "failed", val |-> e]
IsDone(f) == f.state \in {"ok", "failed"}

NoJoin == [g |-> DEFAULT_GENERATION_ID, m |-> UNKNOWN_MEMBER_ID, p |-> "none",
           l |-> UNKNOWN_MEMBER_ID, pa |-> "none",
           a |-> "none", args |-> <<>>, was |-> DEFAULT_GENERATION_ID]

Request(type, data) ==
  [type |-> type, node |-> coordinator_id, generation |-> generation,
   member_id |-> member_id, data |-> data]

Init ==
  /\ generation = DEFAULT_GENERATION_ID
  /\ member_id = UNKNOWN_MEMBER_ID
  /\ protocol = "none"
  /\ coordinator_id = None
  /\ rejoin_needed = TRUE
  /\ needs_join_prepare = TRUE
  /\ send_age = HeartbeatInterval
  /\ receive_age = SessionTimeout
  /\ request_in_flight = FALSE
  /\ scheduled = <<>>
  /\ conn = "connecting"
  /\ inflight = <<>>
  /\ disc_in_flight = FALSE
  /\ pc = "idle"
  /\ caller = "none"
  /\ join_future = NoFuture
  /\ disc_future = NoFuture
  /\ ret = "none"
  /\ closes = 0
  /\ exc = "none"
  /\ completed = FALSE
  /\ prepares = 0
  /\ join_sent = 0
  /\ joined = NoJoin

\* ------------------------------------------------ Heartbeat (the clock)
session_expired == receive_age >= SessionTimeout
should_heartbeat == send_age >= HeartbeatInterval
ttl == Max(0, HeartbeatInterval - send_age)

\* ------------------------------------------------ the client's scheduler
RECURSIVE Insert(_, _)
Insert(s, d) ==
  IF s = <<>> THEN <<d>>
  ELSE IF d < Head(s) THEN <<d>> \o s
  ELSE <<Head(s)>> \o Insert(Tail(s), d)

\* client.schedule(task, now + d)
schedule(s, d) == IF Len(s) < MaxScheduled THEN Insert(s, d) ELSE s
\* client.unschedule(task); "not scheduled" is ignored by every caller
unschedule(s) == IF s = <<>> THEN s ELSE Tail(s)

\* time passes by n: ages grow (saturating), delays shrink
Elapsed(age, n, cap) == Min(age + n, cap)
Remaining(s, n) == [i \in DOMAIN s |-> Max(0, s[i] - n)]

\* ------------------------------------------------------- client transport
is_disconnected == conn = "disconnected"
ready == conn = "ready"

Suspended ==
  pc \in {"idle", "eck_poll_conn", "eck_poll_disc", "eck_poll_meta",
          "eag_poll_join", "close_poll_leave"}

LeaveInFlight == \E i \in DOMAIN inflight : inflight[i].type = "leave"

\* the future the caller's poll(future=...) waits for is done
FutureDone ==
  \/ pc = "eck_poll_disc" /\ IsDone(disc_future)
  \/ pc = "eag_poll_join" /\ IsDone(join_future)
  \/ pc = "close_poll_leave" /\ ~LeaveInFlight

\* a lost connection fails every request in flight on it, in order, before
\* anything else happens
Draining == is_disconnected /\ inflight # <<>>

\* poll runs the delayed tasks that are due and processes socket events
\* while the awaited future is pending, and returns once it is done
Polling == Suspended /\ ~FutureDone /\ ~Draining

HeadIs(type) == inflight # <<>> /\ Head(inflight).type = type

\* ---------------------------------------------------- BaseCoordinator
\* coordinator_unknown() without the final readiness test
coordinator_unknown_m ==
  \/ coordinator_id = None
  \/ is_disconnected

\* coordinator_unknown(): the value returned ...
coordinator_unknown ==
  \/ coordinator_id = None
  \/ is_disconnected
  \/ ~ready
\* ... and its side effect on coordinator_id (coordinator_dead())
coordinator_checked ==
  IF coordinator_id # None /\ is_disconnected THEN None ELSE coordinator_id

\* reset() without client.unschedule(self)
HeartbeatTask_reset_k(s, in_flight) ==
  IF ~in_flight THEN schedule(s, 0) ELSE s

\* reset() without the `if not self._request_in_flight` test
HeartbeatTask_reset_m(s, in_flight) == schedule(unschedule(s), 0)

\* HeartbeatTask.reset(): the scheduler's entries afterwards (the session
\* timeout is reset by the caller's receive_age' = 0)
HeartbeatTask_reset(s, in_flight) ==
  IF ~in_flight THEN schedule(unschedule(s), 0) ELSE unschedule(s)

\* coordinator_dead() that leaves coordinator_id as it is
coordinator_dead_m == coordinator_id

\* coordinator_dead()
coordinator_dead == None

\* what a step that returns nothing to the caller leaves in ret/exc
Quiet == ret' = "none" /\ exc' = "none" /\ closes' = 0
Return(what) ==
  /\ pc' = "idle" /\ caller' = "none" /\ ret' = what /\ exc' = "none"
  \* close() calls that returned back to back
  /\ closes' = IF what = "close_ok" THEN Min(closes + 1, 2) ELSE 0
Raise(what, e) ==
  pc' = "idle" /\ caller' = "none" /\ ret' = what /\ exc' = e /\ closes' = 0

\* ---------------------------------------------- ensure_active_group()
\* _on_join_prepare called on every ensure_active_group that has to rejoin
join_prepare_due_m == TRUE

\* if self.needs_join_prepare:
join_prepare_due == needs_join_prepare

\* entry with the prepare step placed before the early return
ensure_active_group_m ==
  /\ pc = "idle" /\ ~Draining
  /\ needs_join_prepare' = FALSE
  /\ prepares' = IF join_prepare_due THEN Min(prepares + 1, 2) ELSE prepares
  /\ IF ~rejoin_needed
       THEN Return("eag_ok")
       ELSE pc' = "eag_loop" /\ Quiet /\ UNCHANGED caller
  /\ UNCHANGED <<generation, member_id, protocol, coordinator_id, rejoin_needed,
                 clockVars, taskVars, netVars, join_future, disc_future,
                 completed, join_sent, joined>>

\* entry: the early return and _on_join_prepare
ensure_active_group ==
  /\ pc = "idle" /\ ~Draining
  /\ IF ~rejoin_needed
       THEN /\ Return("eag_ok")
            /\ UNCHANGED <<needs_join_prepare, prepares>>
       ELSE /\ pc' = "eag_loop" /\ Quiet
            /\ needs_join_prepare' = FALSE
            /\ prepares' = IF join_prepare_due THEN Min(prepares + 1, 2)
                                                 ELSE prepares
            /\ UNCHANGED caller
  /\ UNCHANGED <<generation, member_id, protocol, coordinator_id, rejoin_needed,
                 clockVars, taskVars, netVars, join_future, disc_future,
                 completed, join_sent, joined>>

\* while self.need_rejoin(): self.ensure_coordinator_known() ...
eag_loop ==
  /\ pc = "eag_loop"
  /\ IF rejoin_needed
       THEN pc' = "eck_loop" /\ caller' = "eag" /\ Quiet
       ELSE Return("eag_ok")
  /\ joined' = NoJoin
  /\ UNCHANGED <<coordVars, clockVars, taskVars, netVars, join_future,
                 disc_future, completed, prepares, join_sent>>

\* ------------------------------------------- ensure_coordinator_known()
ensure_coordinator_known ==
  /\ pc = "idle" /\ ~Draining
  /\ pc' = "eck_loop" /\ caller' = "api" /\ Quiet
  /\ UNCHANGED <<coordVars, clockVars, taskVars, netVars, join_future,
                 disc_future, histVars>>

\* while self.coordinator_unknown(): false, the call returns
eck_return ==
  /\ pc = "eck_loop"
  /\ ~coordinator_unknown
  /\ IF caller = "eag"
       THEN pc' = "eag_join" /\ Quiet /\ UNCHANGED caller
       ELSE Return("eck_ok")
  /\ UNCHANGED <<coordVars, clockVars, taskVars, netVars, join_future,
                 disc_future, histVars>>

\* the coordinator is set but its connection is not ready: client.poll()
eck_wait_connection ==
  /\ pc = "eck_loop"
  /\ coordinator_unknown
  /\ coordinator_checked # None
  /\ pc' = "eck_poll_conn" /\ Quiet
  /\ UNCHANGED <<coordVars, clockVars, taskVars, netVars, caller, join_future,
                 disc_future, histVars>>

eck_poll_returns ==
  /\ pc = "eck_poll_conn"
  /\ ~Draining
  /\ pc' = "eck_loop" /\ Quiet
  /\ UNCHANGED <<coordVars, clockVars, taskVars, netVars, caller, join_future,
                 disc_future, histVars>>

\* _send_group_metadata_request(); node_ok: least_loaded_node() gave a
\* node that is ready
send_group_metadata_request(node_ok) ==
  /\ pc = "eck_loop"
  /\ coordinator_unknown
  /\ coordinator_checked = None
  /\ coordinator_id' = coordinator_checked
  /\ IF node_ok
       THEN disc_in_flight' = TRUE /\ disc_future' = Pending
       ELSE disc_in_flight' = FALSE /\ disc_future' = Failed("NoBrokersAvailable")
  /\ pc' = "eck_poll_disc" /\ Quiet
  /\ UNCHANGED <<generation, member_id, protocol, rejoin_needed,
                 needs_join_prepare, clockVars, taskVars, conn, inflight,
                 caller, join_future, histVars>>

\* _handle_group_coordinator_response(); ok: add_group_coordinator()'s result
handle_group_coordinator_response(code, node, ok) ==
  /\ Polling
  /\ disc_in_flight
  /\ disc_in_flight' = FALSE
  /\ Quiet
  /\ IF ~coordinator_unknown
       THEN /\ disc_future' = Succeeded("")
            /\ UNCHANGED <<coordinator_id, conn, clockVars, taskVars>>
       ELSE IF for_code(code) = "NoError" /\ ok
         THEN /\ coordinator_id' = node
              /\ conn' = IF is_disconnected THEN "connecting" ELSE conn
              /\ IF generation > 0
                   THEN /\ receive_age' = 0
                        /\ scheduled' =
                             HeartbeatTask_reset(scheduled, request_in_flight)
                   ELSE UNCHANGED <<receive_age, scheduled>>
              /\ disc_future' = Succeeded("")
              /\ UNCHANGED <<send_age, request_in_flight>>
         ELSE /\ coordinator_id' = coordinator_checked
              /\ disc_future' =
                   IF for_code(code) = "NoError"
                     THEN Failed("IllegalStateError")
                     ELSE Failed(for_code(code))
              /\ UNCHANGED <<conn, clockVars, taskVars>>
  /\ UNCHANGED <<generation, member_id, protocol, rejoin_needed,
                 needs_join_prepare, inflight, pc, caller, join_future,
                 histVars>>

\* the GroupCoordinator request fails in the transport: _failed_request
\* (the node it was sent to is not the coordinator connection)
failed_group_metadata_request ==
  /\ Polling
  /\ disc_in_flight
  /\ disc_in_flight' = FALSE
  /\ coordinator_id' = coordinator_dead
  /\ disc_future' = Failed("ConnectionError")
  /\ Quiet
  /\ UNCHANGED <<generation, member_id, protocol, rejoin_needed,
                 needs_join_prepare, clockVars, taskVars, conn, inflight, pc,
                 caller, join_future, histVars>>

\* after client.poll(future=future): retry after a metadata update, or raise
eck_discovery_done ==
  /\ pc = "eck_poll_disc"
  /\ IsDone(disc_future)
  /\ ~Draining
  /\ IF disc_future.state = "failed"
       THEN IF Retriable(disc_future.val)
              THEN pc' = "eck_poll_meta" /\ Quiet /\ UNCHANGED caller
              ELSE Raise(IF caller = "eag" THEN "eag_raise_discovery" ELSE "eck_raise",
                         disc_future.val)
       ELSE pc' = "eck_loop" /\ Quiet /\ UNCHANGED caller
  /\ disc_future' = NoFuture
  /\ UNCHANGED <<coordVars, clockVars, taskVars, netVars, join_future,
                 histVars>>

\* client.poll(future=metadata_update) returns
eck_metadata_updated ==
  /\ pc = "eck_poll_meta"
  /\ ~Draining
  /\ pc' = "eck_loop" /\ Quiet
  /\ UNCHANGED <<coordVars, clockVars, taskVars, netVars, caller, join_future,
                 disc_future, histVars>>

\* ------------------------------------------------ _perform_group_join()
\* the request sent, but the caller goes round the loop without polling the
\* future
perform_group_join_m ==
  /\ pc = "eag_join"
  /\ coordinator_id' = coordinator_checked
  /\ IF coordinator_unknown
       THEN /\ join_future' = Failed("GroupCoordinatorNotAvailableError")
            /\ UNCHANGED <<inflight, join_sent>>
       ELSE /\ join_future' = Pending
            /\ inflight' = Append(inflight, Request("join", "none"))
            /\ join_sent' = Min(join_sent + 1, 2)
  /\ pc' = "eag_loop" /\ Quiet
  /\ UNCHANGED <<generation, member_id, protocol, rejoin_needed,
                 needs_join_prepare, clockVars, taskVars, conn, disc_in_flight,
                 caller, disc_future, completed, prepares, joined>>

perform_group_join ==
  /\ pc = "eag_join"
  /\ coordinator_id' = coordinator_checked
  /\ IF coordinator_unknown
       THEN /\ join_future' = Failed("GroupCoordinatorNotAvailableError")
            /\ UNCHANGED <<inflight, join_sent>>
       ELSE /\ join_future' = Pending
            /\ inflight' = Append(inflight, Request("join", "none"))
            /\ join_sent' = Min(join_sent + 1, 2)
  /\ pc' = "eag_poll_join" /\ Quiet
  /\ UNCHANGED <<generation, member_id, protocol, rejoin_needed,
                 needs_join_prepare, clockVars, taskVars, conn, disc_in_flight,
                 caller, disc_future, completed, prepares, joined>>

\* the reply's fields adopted, but the generation left as it was
join_adopted_m(m, g, p) ==
  [member_id |-> m, generation |-> generation, protocol |-> p,
   rejoin_needed |-> FALSE]

\* what _handle_join_group_response adopts from a NoError reply
join_adopted(m, g, p) ==
  [member_id |-> m, generation |-> g, protocol |-> p, rejoin_needed |-> FALSE]

\* every member takes the leader's branch
elected_leader_m(leader_id, m) == TRUE

\* if response.leader_id == response.member_id:
elected_leader(leader_id, m) == leader_id = m

\* _handle_join_group_response(); pa: what _perform_assignment does when
\* it is called ("raise", or the group assignment it returns)
handle_join_group_response(code, m, g, p, leader, pa) ==
  LET error_type == for_code(code)
      \* _on_join_leader's request carries the group assignment,
      \* _on_join_follower's an empty one
      sync == [type |-> "sync", node |-> coordinator_id,
               generation |-> join_adopted(m, g, p).generation,
               member_id |-> join_adopted(m, g, p).member_id,
               data |-> IF elected_leader(leader, m) THEN pa ELSE "empty"]
  IN
  /\ Polling /\ ready /\ HeadIs("join")
  /\ Quiet
  /\ IF error_type = "NoError"
       THEN /\ member_id' = join_adopted(m, g, p).member_id
            /\ generation' = join_adopted(m, g, p).generation
            /\ rejoin_needed' = join_adopted(m, g, p).rejoin_needed
            /\ protocol' = join_adopted(m, g, p).protocol
            /\ completed' = FALSE
            /\ joined' = [g |-> g, m |-> m, p |-> p, l |-> leader,
                           \* what the call of _perform_assignment gave
                           pa |-> IF elected_leader(leader, m) THEN pa
                                                               ELSE "none",
                           a |-> "none", args |-> <<>>, was |-> generation]
            /\ IF elected_leader(leader, m) /\ pa = "raise"
                 THEN \* _on_join_leader: except Exception as e
                      /\ join_future' = Failed("Exception")
                      /\ inflight' = Tail(inflight)
                      /\ UNCHANGED coordinator_id
                 ELSE \* _send_sync_group_request
                      /\ coordinator_id' = coordinator_checked
                      /\ IF coordinator_unknown
                           THEN /\ join_future' =
                                     Failed("GroupCoordinatorNotAvailableError")
                                /\ inflight' = Tail(inflight)
                           ELSE /\ inflight' = Append(Tail(inflight), sync)
                                /\ UNCHANGED join_future
       ELSE /\ member_id' = IF error_type = "UnknownMemberIdError"
                              THEN UNKNOWN_MEMBER_ID ELSE member_id
            /\ coordinator_id' =
                 IF error_type \in {"GroupCoordinatorNotAvailableError",
                                    "NotCoordinatorForGroupError"}
                   THEN coordinator_dead ELSE coordinator_id
            /\ join_future' = Failed(error_type)
            /\ inflight' = Tail(inflight)
            /\ UNCHANGED <<generation, rejoin_needed, protocol, completed, joined>>
  /\ UNCHANGED <<needs_join_prepare, clockVars, taskVars, conn, disc_in_flight,
                 pc, caller, disc_future, prepares, join_sent>>

\* _handle_sync_group_response()
handle_sync_group_response(code, a) ==
  LET error_type == for_code(code) IN
  /\ Polling /\ ready /\ HeadIs("sync")
  /\ Quiet
  /\ inflight' = Tail(inflight)
  /\ IF error_type = "NoError"
       THEN /\ join_future' = Succeeded(a)
            /\ joined' = [joined EXCEPT !.a = a]
            /\ UNCHANGED <<rejoin_needed, member_id, coordinator_id>>
       ELSE /\ rejoin_needed' = TRUE
            /\ member_id' = IF error_type \in {"UnknownMemberIdError",
                                               "IllegalGenerationError"}
                              THEN UNKNOWN_MEMBER_ID ELSE member_id
            /\ coordinator_id' =
                 IF error_type \in {"GroupCoordinatorNotAvailableError",
                                    "NotCoordinatorForGroupError"}
                   THEN coordinator_dead ELSE coordinator_id
            /\ join_future' = Failed(error_type)
            /\ UNCHANGED joined
  /\ UNCHANGED <<generation, protocol, needs_join_prepare, clockVars, taskVars,
                 conn, disc_in_flight, pc, caller, disc_future, completed,
                 prepares, join_sent>>

\* ensure_active_group after client.poll(future=future): future.succeeded()
eag_join_succeeded ==
  /\ pc = "eag_poll_join" /\ ~Draining
  /\ join_future.state = "ok"
  \* self._on_join_complete(generation, member_id, protocol, bytes)
  /\ completed' = TRUE
  /\ joined' = [joined EXCEPT
                  !.args = <<generation, member_id, protocol, join_future.val>>]
  /\ prepares' = 0
  /\ join_sent' = 0
  /\ needs_join_prepare' = TRUE
  \* self.heartbeat_task.reset()
  /\ receive_age' = 0
  /\ scheduled' = HeartbeatTask_reset(scheduled, request_in_flight)
  /\ join_future' = NoFuture
  /\ pc' = "eag_loop" /\ Quiet
  /\ UNCHANGED <<generation, member_id, protocol, coordinator_id, rejoin_needed,
                 send_age, request_in_flight, netVars, caller, disc_future>>

\* the isinstance test without UnknownMemberIdError
immediate_retry_errors_u == {"RebalanceInProgressError", "IllegalGenerationError"}

\* the isinstance test without IllegalGenerationError
immediate_retry_errors_m == {"UnknownMemberIdError", "RebalanceInProgressError"}

\* the errors ensure_active_group retries at once
immediate_retry_errors ==
  {"UnknownMemberIdError", "RebalanceInProgressError", "IllegalGenerationError"}

\* ... future.failed(): retry at once, raise, or sleep retry_backoff_ms
eag_join_failed ==
  LET exception == join_future.val IN
  /\ pc = "eag_poll_join" /\ ~Draining
  /\ join_future.state = "failed"
  /\ join_future' = NoFuture
  /\ joined' = NoJoin
  /\ IF exception \in immediate_retry_errors
       THEN /\ pc' = "eag_loop" /\ Quiet
            /\ UNCHANGED <<caller, clockVars, scheduled>>
       ELSE IF ~Retriable(exception)
         THEN /\ Raise("eag_raise", exception)
              /\ UNCHANGED <<clockVars, scheduled>>
         ELSE \* time.sleep(retry_backoff_ms): time passes, nothing is polled
              /\ pc' = "eag_loop" /\ ret' = "slept" /\ exc' = "none" /\ closes' = 0
              /\ send_age' = Elapsed(send_age, RetryBackoff, HeartbeatInterval)
              /\ receive_age' = Elapsed(receive_age, RetryBackoff, SessionTimeout)
              /\ scheduled' = Remaining(scheduled, RetryBackoff)
              /\ UNCHANGED caller
  /\ UNCHANGED <<coordVars, request_in_flight, netVars, disc_future, completed,
                 prepares, join_sent>>

\* ------------------------------------------------------------ close()
\* close() without `self.generation = DEFAULT_GENERATION_ID`
ResetGeneration_m ==
  /\ generation' = generation
  /\ member_id' = UNKNOWN_MEMBER_ID
  /\ rejoin_needed' = TRUE

ResetGeneration ==
  /\ generation' = DEFAULT_GENERATION_ID
  /\ member_id' = UNKNOWN_MEMBER_ID
  /\ rejoin_needed' = TRUE

\* the generation test as `>= 0`
leave_due_m == ~coordinator_unknown /\ generation >= 0

\* if not self.coordinator_unknown() and self.generation > 0:
leave_due == ~coordinator_unknown /\ generation > 0

close ==
  /\ pc = "idle" /\ ~Draining
  /\ scheduled' = unschedule(scheduled)
  /\ coordinator_id' = coordinator_checked
  /\ IF leave_due
       THEN /\ inflight' = Append(inflight, Request("leave", "none"))
            /\ pc' = "close_poll_leave" /\ Quiet
            /\ UNCHANGED <<generation, member_id, rejoin_needed, caller>>
       ELSE /\ ResetGeneration
            /\ Return("close_ok")
            /\ UNCHANGED inflight
  /\ UNCHANGED <<protocol, needs_join_prepare, clockVars, request_in_flight,
                 conn, disc_in_flight, join_future, disc_future, histVars>>

\* _handle_leave_group_response(): logs only
handle_leave_group_response(code) ==
  /\ Polling /\ ready /\ HeadIs("leave")
  /\ inflight' = Tail(inflight)
  /\ Quiet
  /\ UNCHANGED <<coordVars, clockVars, taskVars, conn, disc_in_flight, ctlVars,
                 histVars>>

\* close() after client.poll(future=future)
close_done ==
  /\ pc = "close_poll_leave" /\ ~Draining
  /\ ~LeaveInFlight
  /\ ResetGeneration
  /\ Return("close_ok")
  /\ UNCHANGED <<protocol, coordinator_id, needs_join_prepare, clockVars,
                 taskVars, netVars, join_future, disc_future, histVars>>

\* --------------------------------------------------------- HeartbeatTask
\* the scheduler pops the task when it is due and calls it
Due == scheduled # <<>> /\ Head(scheduled) = 0

\* __call__ with coordinator_unknown() evaluated before the other two tests
heartbeat_skip_m ==
  /\ Polling /\ Due
  /\ generation < 0 \/ rejoin_needed \/ coordinator_unknown
  /\ scheduled' = Tail(scheduled)
  /\ coordinator_id' = coordinator_checked
  /\ ret' = "heartbeat_skipped" /\ exc' = "none" /\ closes' = 0
  /\ UNCHANGED <<generation, member_id, protocol, rejoin_needed,
                 needs_join_prepare, clockVars, request_in_flight, netVars,
                 ctlVars, histVars>>

\* __call__: not in a heartbeatable state, return without rescheduling
\* (`or` evaluates coordinator_unknown() only when the first two are false)
heartbeat_skip ==
  /\ Polling /\ Due
  /\ generation < 0 \/ rejoin_needed \/ coordinator_unknown
  /\ scheduled' = Tail(scheduled)
  /\ coordinator_id' = IF generation < 0 \/ rejoin_needed
                         THEN coordinator_id ELSE coordinator_checked
  /\ ret' = "heartbeat_skipped" /\ exc' = "none" /\ closes' = 0
  /\ UNCHANGED <<generation, member_id, protocol, rejoin_needed,
                 needs_join_prepare, clockVars, request_in_flight, netVars,
                 ctlVars, histVars>>

\* __call__: the session expired, mark the coordinator dead
heartbeat_session_expired ==
  /\ Polling /\ Due
  /\ ~(generation < 0 \/ rejoin_needed \/ coordinator_unknown)
  /\ session_expired
  /\ scheduled' = Tail(scheduled)
  /\ coordinator_id' = coordinator_dead
  /\ ret' = "session_expired" /\ exc' = "none" /\ closes' = 0
  /\ UNCHANGED <<generation, member_id, protocol, rejoin_needed,
                 needs_join_prepare, clockVars, request_in_flight, netVars,
                 ctlVars, histVars>>

\* __call__: too early, reschedule for now + ttl
heartbeat_defer ==
  /\ Polling /\ Due
  /\ ~(generation < 0 \/ rejoin_needed \/ coordinator_unknown)
  /\ ~session_expired
  /\ ~should_heartbeat
  /\ scheduled' = schedule(Tail(scheduled), ttl)
  /\ Quiet
  /\ UNCHANGED <<coordVars, clockVars, request_in_flight, netVars, ctlVars,
                 histVars>>

\* __call__: send a heartbeat (_send_heartbeat_request)
heartbeat_send ==
  /\ Polling /\ Due
  /\ ~(generation < 0 \/ rejoin_needed \/ coordinator_unknown)
  /\ ~session_expired
  /\ should_heartbeat
  /\ Len(inflight) < MaxInFlight
  /\ scheduled' = Tail(scheduled)
  /\ send_age' = 0
  /\ request_in_flight' = TRUE
  /\ inflight' = Append(inflight, Request("heartbeat", "none"))
  /\ Quiet
  /\ UNCHANGED <<coordVars, receive_age, conn, disc_in_flight, ctlVars,
                 histVars>>

\* the RebalanceInProgressError branch without `self.rejoin_needed = True`
heartbeat_rejoin_errors_r == {"IllegalGenerationError", "UnknownMemberIdError"}

\* the IllegalGenerationError branch without `self.rejoin_needed = True`
heartbeat_rejoin_errors_i == {"RebalanceInProgressError", "UnknownMemberIdError"}

\* the UnknownMemberIdError branch without `self.rejoin_needed = True`
heartbeat_rejoin_errors_m == {"RebalanceInProgressError", "IllegalGenerationError"}

\* the Heartbeat errors on which _handle_heartbeat_response sets rejoin_needed
heartbeat_rejoin_errors ==
  {"RebalanceInProgressError", "IllegalGenerationError", "UnknownMemberIdError"}

\* the failure callback rescheduling as the success callback does
handle_heartbeat_failure_m(s) == schedule(s, ttl)

\* HeartbeatTask._handle_heartbeat_failure: the scheduler's entries afterwards
handle_heartbeat_failure(s) == schedule(s, RetryBackoff)

\* _handle_heartbeat_response(), then the task's _handle_heartbeat_success
\* or _handle_heartbeat_failure
handle_heartbeat_response(code) ==
  LET error_type == for_code(code) IN
  /\ Polling /\ ready /\ HeadIs("heartbeat")
  /\ inflight' = Tail(inflight)
  /\ request_in_flight' = FALSE
  \* future.success(None) or future.failure(error)
  /\ ret' = "heartbeat_reply" /\ closes' = 0
  /\ exc' = IF error_type = "NoError" THEN "none" ELSE error_type
  /\ IF error_type = "NoError"
       THEN /\ receive_age' = 0
            /\ scheduled' = schedule(scheduled, ttl)
            /\ UNCHANGED <<coordinator_id, rejoin_needed, member_id>>
       ELSE /\ coordinator_id' =
                 IF error_type \in {"GroupCoordinatorNotAvailableError",
                                    "NotCoordinatorForGroupError"}
                   THEN coordinator_dead ELSE coordinator_id
            /\ rejoin_needed' =
                 IF error_type \in heartbeat_rejoin_errors
                   THEN TRUE ELSE rejoin_needed
            /\ member_id' = IF error_type = "UnknownMemberIdError"
                              THEN UNKNOWN_MEMBER_ID ELSE member_id
            /\ scheduled' = handle_heartbeat_failure(scheduled)
            /\ UNCHANGED receive_age
  /\ UNCHANGED <<generation, protocol, needs_join_prepare, send_age, conn,
                 disc_in_flight, ctlVars, histVars>>

\* -------------------------------------------------- transport failures
\* the coordinator connection is lost
disconnect ==
  /\ Polling
  /\ conn \in {"connecting", "ready"}
  /\ conn' = "disconnected"
  /\ Quiet
  /\ UNCHANGED <<coordVars, clockVars, taskVars, inflight, disc_in_flight,
                 ctlVars, histVars>>

connected ==
  /\ Polling
  /\ conn = "connecting"
  /\ conn' = "ready"
  /\ Quiet
  /\ UNCHANGED <<coordVars, clockVars, taskVars, inflight, disc_in_flight,
                 ctlVars, histVars>>

\* the oldest request in flight on the lost connection fails: _failed_request
\* for JoinGroup, SyncGroup and Heartbeat, log.error for LeaveGroup
failed_request ==
  LET type == Head(inflight).type IN
  /\ Draining
  /\ inflight' = Tail(inflight)
  /\ Quiet
  /\ coordinator_id' = IF type = "leave" THEN coordinator_id ELSE coordinator_dead
  /\ join_future' = IF type \in {"join", "sync"} THEN Failed("ConnectionError")
                                                 ELSE join_future
  /\ IF type = "heartbeat"
       THEN \* _handle_heartbeat_failure
            /\ request_in_flight' = FALSE
            /\ scheduled' = handle_heartbeat_failure(scheduled)
       ELSE UNCHANGED <<request_in_flight, scheduled>>
  /\ UNCHANGED <<generation, member_id, protocol, rejoin_needed,
                 needs_join_prepare, clockVars, conn, disc_in_flight, pc,
                 caller, disc_future, histVars>>

\* ------------------------------------------------------------------ time
tick ==
  /\ Polling
  /\ send_age' = Elapsed(send_age, 1, HeartbeatInterval)
  /\ receive_age' = Elapsed(receive_age, 1, SessionTimeout)
  /\ scheduled' = Remaining(scheduled, 1)
  /\ Quiet
  /\ UNCHANGED <<coordVars, request_in_flight, netVars, ctlVars, histVars>>

\* ---------------------------------------------------------- specification
\* the JoinGroup replies <<error_code, member_id, generation_id,
\* group_protocol, leader_id, outcome of _perform_assignment>>: the handler
\* reads the fields after error_code only when the reply carries NoError,
\* so an error reply is represented once, with empty fields
JoinGroupResponses ==
  ({c \in Codes : for_code(c) = "NoError"} \X Members \X Generations
     \X Protocols \X Members \X ({"raise"} \cup Assignments))
  \cup ({c \in Codes : for_code(c) # "NoError"} \X {UNKNOWN_MEMBER_ID}
          \X {DEFAULT_GENERATION_ID} \X {"none"} \X {UNKNOWN_MEMBER_ID}
          \X {"a1"})

Next ==
  \/ ensure_active_group
  \/ eag_loop
  \/ ensure_coordinator_known
  \/ eck_return
  \/ eck_wait_connection
  \/ eck_poll_returns
  \/ \E node_ok \in BOOLEAN : send_group_metadata_request(node_ok)
  \/ /\ disc_in_flight
     /\ \E code \in Codes, node \in Nodes, ok \in BOOLEAN :
          handle_group_coordinator_response(code, node, ok)
  \/ failed_group_metadata_request
  \/ eck_discovery_done
  \/ eck_metadata_updated
  \/ perform_group_join
  \/ /\ HeadIs("join")
     /\ \E r \in JoinGroupResponses :
          handle_join_group_response(r[1], r[2], r[3], r[4], r[5], r[6])
  \/ /\ HeadIs("sync")
     /\ \E code \in Codes, a \in Assignments :
          handle_sync_group_response(code, a)
  \/ eag_join_succeeded
  \/ eag_join_failed
  \/ close
  \/ /\ HeadIs("leave")
     /\ \E code \in Codes : handle_leave_group_response(code)
  \/ close_done
  \/ heartbeat_skip
  \/ heartbeat_session_expired
  \/ heartbeat_defer
  \/ heartbeat_send
  \/ /\ HeadIs("heartbeat")
     /\ \E code \in Codes : handle_heartbeat_response(code)
  \/ disconnect
  \/ connected
  \/ tick
  \/ failed_request

Spec == Init /\ [][Next]_vars

\* ================================================================ properties
\* ensure_active_group() has just returned / raised
EagReturned == ret = "eag_ok"
EagRaised == ret \in {"eag_raise", "eag_raise_discovery"}
CloseReturned == ret = "close_ok"

MembershipInvalidated ==
  {"UnknownMemberIdError", "IllegalGenerationError", "RebalanceInProgressError"}

InFlightOf(type) == {i \in DOMAIN inflight : inflight[i].type = type}

\* the coordinator is known in close()'s sense: set, and its connection ready
CoordinatorKnown == coordinator_id # None /\ conn = "ready"

\* C1: whenever ensure_active_group() returns normally, rejoin_needed is
\* false and _on_join_complete has been invoked for the generation adopted
\* from the last successful JoinGroup.
C1_ReturnsStable == EagReturned => (~rejoin_needed /\ completed)

\* C2 (as stated): in every reachable state, rejoin_needed false implies
\* generation >= 0, member_id not the empty string and coordinator_id set.
C2_Stated ==
  ~rejoin_needed =>
    (generation >= 0 /\ member_id # UNKNOWN_MEMBER_ID /\ coordinator_id # None)

\* C2 (amended): in every reachable state, rejoin_needed false implies
\* generation >= 0 and member_id not the empty string; coordinator_id may be
\* unset.
C2_MemberWhileStable ==
  ~rejoin_needed => (generation >= 0 /\ member_id # UNKNOWN_MEMBER_ID)

\* C2 witness: a completed membership whose coordinator has been marked dead
C2_StableWithoutCoordinator ==
  ~rejoin_needed /\ completed /\ coordinator_id = None /\ generation > 0

\* C3: at most one Heartbeat request is outstanding at any moment, the task
\* is never pending in the scheduler while request_in_flight is true, and it
\* never sends a Heartbeat while an earlier one has not completed.
C3_SingleHeartbeat ==
  /\ [](Cardinality(InFlightOf("heartbeat")) <= 1)
  /\ [](request_in_flight => scheduled = <<>>)
  /\ [](InFlightOf("heartbeat") # {} => request_in_flight)
  /\ [][heartbeat_send => ~request_in_flight]_vars

\* C3 witness: reset() has just been called by ensure_active_group while a
\* Heartbeat was in flight
C3_ResetWhileInFlight ==
  request_in_flight /\ pc = "eag_loop" /\ joined.args # <<>>

\* C4: in every rejoin chain (the JoinGroup attempts up to the next
\* _on_join_complete) _on_join_prepare is invoked exactly once, before the
\* first JoinGroup request, and not again for later retries, including those
\* of a later ensure_active_group call.
C4_PrepareOnce == prepares <= 1 /\ (join_sent > 0 => prepares = 1)

\* C4 witness: a new ensure_active_group call has passed the prepare step in
\* a chain that already sent a JoinGroup
C4_LaterCallSameChain ==
  pc = "eag_loop" /\ caller = "none" /\ join_sent > 0 /\ prepares = 1

\* C5: no Heartbeat carrying the generation adopted from a successful
\* JoinGroup is sent before _on_join_complete has been invoked for it.
C5_CompleteBeforeHeartbeat == [][heartbeat_send => completed]_vars

\* C6: a NoError JoinGroup reply (m, g, p) followed by a NoError SyncGroup
\* reply with assignment a leaves generation = g, member_id = m,
\* protocol = p, rejoin_needed false, and _on_join_complete is invoked once
\* for that join, with (g, m, p, a).
C6_RoundTrip ==
  /\ [](join_future.state = "ok" =>
          /\ generation = joined.g /\ member_id = joined.m
          /\ protocol = joined.p /\ ~rejoin_needed
          /\ join_future.val = joined.a)
  /\ [][eag_join_succeeded =>
          /\ ~completed
          /\ joined'.args = <<joined.g, joined.m, joined.p, joined.a>>
          /\ generation' = joined.g /\ member_id' = joined.m
          /\ protocol' = joined.p /\ ~rejoin_needed']_vars

\* C6 witness: _on_join_complete has just been invoked for a join as leader
C6_JoinCompleted ==
  joined.args = <<MaxGen, "m2", "roundrobin", "a2">> /\ completed

\* C7 (as stated): ensure_active_group() never raises a retriable error, nor
\* a membership-invalidated one, whether it occurred in discovery, JoinGroup
\* or SyncGroup.
C7_Stated ==
  EagRaised => exc \notin (RetriableErrors \cup MembershipInvalidated)

\* C7 (amended): ensure_active_group() never raises an error marked
\* retriable, and never a membership-invalidated error that came from a
\* JoinGroup or SyncGroup reply.
C7_NoRetriableRaised ==
  /\ EagRaised => exc \notin RetriableErrors
  /\ ret = "eag_raise" => exc \notin MembershipInvalidated

\* C7 witness: a fatal error raised from the join loop after an internal retry
C7_RaisedAfterRetry ==
  ret = "eag_raise" /\ exc = "GroupAuthorizationFailedError" /\ join_sent = 2

\* C8: if _perform_assignment raises, rejoin_needed is true afterwards and
\* the exception does not escape ensure_active_group.
C8_AssignmentFailureRetried ==
  /\ join_future = Failed("Exception") => rejoin_needed
  /\ EagRaised => exc # "Exception"

\* C9: a close() that follows a close() leaves generation, member_id,
\* rejoin_needed, coordinator_id and needs_join_prepare as the first left
\* them and sends no request.
C9_CloseIdempotent ==
  [][(closes >= 1 /\ close) =>
        /\ UNCHANGED <<generation, member_id, rejoin_needed, coordinator_id,
                       needs_join_prepare>>
        /\ UNCHANGED <<inflight, disc_in_flight>>
        /\ CloseReturned']_vars

\* C10: close() sends exactly one LeaveGroup, with member_id, to
\* coordinator_id when the coordinator is known and generation > 0 and
\* nothing otherwise; whatever becomes of the LeaveGroup, when close()
\* returns generation = -1, member_id = "" and rejoin_needed is true, and
\* nothing is raised.
C10_CloseLeaves ==
  /\ [][close =>
          IF CoordinatorKnown /\ generation > 0
            THEN /\ inflight' = Append(inflight,
                       [type |-> "leave", node |-> coordinator_id,
                        generation |-> generation, member_id |-> member_id,
                        data |-> "none"])
                 /\ pc' = "close_poll_leave"
            ELSE inflight' = inflight /\ CloseReturned']_vars
  /\ [][Cardinality(InFlightOf("leave")') > Cardinality(InFlightOf("leave"))
          => close]_vars
  /\ [](Cardinality(InFlightOf("leave")) <= 1)
  /\ [](pc = "close_poll_leave" =>
          ~EagRaised /\ (exc = "none" \/ ret = "heartbeat_reply"))
  /\ [](CloseReturned =>
          /\ generation = DEFAULT_GENERATION_ID
          /\ member_id = UNKNOWN_MEMBER_ID
          /\ rejoin_needed /\ exc = "none")

\* C10 witness: close() has returned after its LeaveGroup failed in the
\* transport
C10_ClosedAfterLeaveFailed ==
  CloseReturned /\ coordinator_id # None /\ is_disconnected

\* the step that processes a NoError JoinGroup reply
JoinAdopted == HeadIs("join") /\ joined' # NoJoin

\* C11 (as stated): between two resets by close(), a JoinGroup success never
\* replaces the current generation with a smaller one.
C11_Stated == [][JoinAdopted => generation' >= generation]_vars

\* C11 (amended): generation changes only when a NoError JoinGroup reply is
\* processed, and then becomes exactly that reply's generation_id, or when
\* close() resets it to -1; a reply with a smaller generation_id is adopted
\* as it is.
C11_GenerationFollowsReply ==
  /\ [][generation' # generation =>
          \/ JoinAdopted
          \/ generation' = DEFAULT_GENERATION_ID /\ CloseReturned']_vars
  /\ [][JoinAdopted =>
          generation' = joined'.g /\ joined'.was = generation]_vars

\* C11 witness: a JoinGroup success has replaced a generation by a smaller one
C11_SmallerAdopted ==
  joined.was > joined.g /\ generation = joined.g /\ joined.g >= 0

\* a firing of the HeartbeatTask (__call__)
HeartbeatTaskFires ==
  heartbeat_skip \/ heartbeat_session_expired \/ heartbeat_defer \/ heartbeat_send

\* the task neither sent a Heartbeat nor put itself back in the scheduler
NothingSentOrScheduled ==
  /\ inflight' = inflight
  /\ request_in_flight' = request_in_flight
  /\ scheduled' = Tail(scheduled)

\* C12 (as stated): whenever the HeartbeatTask fires with the session
\* expired, coordinator_id is unset afterwards, no Heartbeat is sent and the
\* task does not reschedule itself.
C12_Stated ==
  [][(session_expired /\ HeartbeatTaskFires) =>
        coordinator_id' = None /\ NothingSentOrScheduled]_vars

\* C12 (amended): a firing with the session expired sends no Heartbeat and
\* does not reschedule the task; it leaves coordinator_id unset when the
\* membership is heartbeatable (generation >= 0, no rejoin needed, coordinator
\* known), and otherwise returns at the first guard.
C12_ExpiredSessionFiring ==
  /\ [][(session_expired /\ HeartbeatTaskFires) => NothingSentOrScheduled]_vars
  /\ [][(session_expired /\ HeartbeatTaskFires
           /\ generation >= 0 /\ ~rejoin_needed /\ ~coordinator_unknown)
          => coordinator_id' = None /\ ret' = "session_expired"]_vars
  /\ [][(session_expired /\ HeartbeatTaskFires
           /\ (generation < 0 \/ rejoin_needed))
          => coordinator_id' = coordinator_id]_vars

\* C12 witness: the task has just found the session expired
C12_SessionExpiredFired ==
  ret = "session_expired" /\ coordinator_id = None /\ ~rejoin_needed

\* the coordinator is set, not reported disconnected, and reported ready
CoordinatorUsable == coordinator_id # None /\ ~is_disconnected /\ ready

\* C13: ensure_coordinator_known() returns normally only with the coordinator
\* set, not disconnected and ready; a retriable discovery failure leads to a
\* metadata refresh and another pass of the loop, and only a non-retriable
\* discovery failure is raised.
C13_ReturnsWithCoordinator ==
  /\ [](ret = "eck_ok" => CoordinatorUsable)
  /\ [](pc = "eag_join" => CoordinatorUsable)
  /\ [](ret \in {"eck_raise", "eag_raise_discovery"} => exc \notin RetriableErrors)
  /\ [][(pc = "eck_poll_disc" /\ pc' # pc) =>
          /\ IsDone(disc_future)
          /\ IF disc_future.state = "ok" THEN pc' = "eck_loop"
             ELSE IF disc_future.val \in RetriableErrors
               THEN pc' = "eck_poll_meta"
               ELSE /\ ret' \in {"eck_raise", "eag_raise_discovery"}
                    /\ exc' = disc_future.val]_vars
  /\ [][(pc = "eck_poll_meta" /\ pc' # pc) => pc' = "eck_loop"]_vars
  /\ [][ret' \in {"eck_raise", "eag_raise_discovery"} => pc = "eck_poll_disc"]_vars

\* C13 witness: ensure_coordinator_known() has returned to the application
\* of a joined member
C13_CoordinatorFound ==
  ret = "eck_ok" /\ coordinator_id \in Nodes /\ generation > 0 /\ ~rejoin_needed

\* C14: when rejoin_needed is false, ensure_active_group() returns at once:
\* it sends nothing, invokes neither _on_join_prepare nor _on_join_complete,
\* leaves the HeartbeatTask alone and changes none of generation, member_id,
\* protocol, coordinator_id, needs_join_prepare.
C14_StableReturnsUnchanged ==
  [][(pc = "idle" /\ ~rejoin_needed /\ ensure_active_group) =>
        /\ EagReturned' /\ pc' = "idle"
        /\ UNCHANGED <<generation, member_id, protocol, coordinator_id,
                       needs_join_prepare, rejoin_needed>>
        /\ UNCHANGED <<inflight, disc_in_flight, conn>>
        /\ UNCHANGED <<request_in_flight, scheduled, send_age, receive_age>>
        /\ UNCHANGED <<prepares, completed, join_sent>>]_vars

\* C14 witness: ensure_active_group() has returned at once on a completed
\* membership (time has passed since the HeartbeatTask was last reset)
C14_ReturnedAtOnce ==
  EagReturned /\ completed /\ ~rejoin_needed /\ receive_age > 0

\* a completed membership whose coordinator_id has been cleared, on a live
\* connection (by a Heartbeat reply or a session expiry), while rejoin_needed
\* stayed false
CoordinatorLost ==
  pc = "idle" /\ completed /\ ~rejoin_needed /\ generation >= 0
    /\ coordinator_id = None /\ conn = "ready"

\* C15: after a stable membership has lost its coordinator with rejoin_needed
\* still false, the next ensure_active_group() rediscovers a coordinator:
\* when it returns, coordinator_id is set again.
C15_RediscoversCoordinator ==
  [][(CoordinatorLost /\ ensure_active_group /\ EagReturned') =>
        coordinator_id' # None]_vars

\* C16: at most one JoinGroup (with its SyncGroup) of the membership is in
\* flight at any moment: a JoinGroup is sent only when the future of the
\* previous attempt has completed and its requests have left the connection.
C16_SingleJoinInFlight ==
  /\ [](Cardinality(InFlightOf("join")) + Cardinality(InFlightOf("sync")) <= 1)
  /\ [](InFlightOf("join") \cup InFlightOf("sync") # {} =>
          join_future = Pending /\ pc = "eag_poll_join")
  /\ [][Cardinality(InFlightOf("join")') > Cardinality(InFlightOf("join")) =>
          /\ join_future # Pending
          /\ InFlightOf("join") \cup InFlightOf("sync") = {}]_vars

\* C16 witness: a second JoinGroup of the chain is in flight, alone
C16_RetriedJoinInFlight ==
  InFlightOf("join") # {} /\ join_sent = 2 /\ join_future = Pending

\* the SyncGroup step of the current attempt has failed: the JoinGroup reply
\* was adopted and the attempt's future failed afterwards, other than by
\* _perform_assignment raising
SyncStepFailed ==
  joined # NoJoin /\ join_future.state = "failed" /\ join_future.val # "Exception"

\* C17: every failure of the SyncGroup step (an error code in the reply, a
\* transport failure of the request, the coordinator unknown when it is to be
\* sent) leaves rejoin_needed true once the failure has been delivered.
C17_SyncFailureNeedsRejoin == SyncStepFailed => rejoin_needed

\* the errors of a JoinGroup reply that the reply handler does not retry
JoinReplyFatal ==
  {for_code(c) : c \in Codes} \
    {"NoError", "GroupLoadInProgressError", "UnknownMemberIdError",
     "GroupCoordinatorNotAvailableError", "NotCoordinatorForGroupError"}

\* the attempt's future was failed by the JoinGroup reply itself
JoinReplyFailed ==
  pc = "eag_poll_join" /\ join_future.state = "failed" /\ joined = NoJoin

\* C18: a JoinGroup reply with any error code other than NoError,
\* GroupLoadInProgress, UnknownMemberId, GroupCoordinatorNotAvailable and
\* NotCoordinatorForGroup is fatal: ensure_active_group raises that error
\* instead of retrying.
C18_OtherJoinErrorsFatal ==
  [][(JoinReplyFailed /\ join_future.val \in JoinReplyFatal /\ pc' # pc) =>
        ret' = "eag_raise" /\ exc' = join_future.val]_vars

\* a request of the given type has just been sent
Sent(type) == Cardinality(InFlightOf(type)') > Cardinality(InFlightOf(type))

\* C19: a JoinGroup reply with UnknownMemberId resets member_id to "" and
\* leaves rejoin_needed true; ensure_active_group retries without sleeping,
\* and the next JoinGroup request carries member_id = "".
C19_UnknownMemberOnJoin ==
  /\ [][(HeadIs("join") /\ join_future' = Failed("UnknownMemberIdError")) =>
          member_id' = UNKNOWN_MEMBER_ID /\ rejoin_needed']_vars
  /\ [][(JoinReplyFailed /\ join_future.val = "UnknownMemberIdError"
           /\ pc' # pc) =>
          /\ pc' = "eag_loop" /\ ret' = "none"
          /\ UNCHANGED <<send_age, receive_age, scheduled>>
          /\ member_id' = UNKNOWN_MEMBER_ID /\ rejoin_needed']_vars
  \* until the next JoinGroup reply is adopted member_id stays "", and every
  \* JoinGroup request carries the member_id of the moment it is sent
  /\ [][(member_id = UNKNOWN_MEMBER_ID /\ member_id' # member_id) =>
          JoinAdopted]_vars
  /\ [][Sent("join") =>
          inflight'[Len(inflight')].type = "join"
            /\ inflight'[Len(inflight')].member_id = member_id]_vars

\* C19 witness: a member that had joined before has had its JoinGroup
\* answered with UnknownMemberId
C19_UnknownMemberDelivered ==
  JoinReplyFailed /\ join_future.val = "UnknownMemberIdError"
    /\ member_id = UNKNOWN_MEMBER_ID /\ generation >= 0 /\ rejoin_needed

\* the reply codes that mean the coordinator has moved or is not available
CoordinatorMoved ==
  {"GroupCoordinatorNotAvailableError", "NotCoordinatorForGroupError"}

\* C20: a JoinGroup reply with GroupCoordinatorNotAvailable or
\* NotCoordinatorForGroup clears coordinator_id and leaves generation and
\* member_id unchanged; ensure_active_group does not raise; coordinator_id
\* is set again only by a successful coordinator discovery, and no JoinGroup
\* or SyncGroup request is ever sent while coordinator_id is unset.
C20_CoordinatorMovedOnJoin ==
  /\ [][(HeadIs("join") /\ join_future' # join_future
           /\ join_future'.state = "failed"
           /\ join_future'.val \in CoordinatorMoved /\ joined' = joined) =>
          coordinator_id' = None /\ UNCHANGED <<generation, member_id>>]_vars
  /\ [][(JoinReplyFailed /\ join_future.val \in CoordinatorMoved
           /\ pc' # pc) =>
          pc' = "eag_loop" /\ ret' # "eag_raise" /\ exc' = "none"
            /\ coordinator_id' = None]_vars
  /\ [][(coordinator_id = None /\ coordinator_id' # None) =>
          disc_in_flight /\ ~disc_in_flight'
            /\ disc_future' = Succeeded("")]_vars
  /\ [][(Sent("join") \/ Sent("sync")) =>
          coordinator_id # None
            /\ inflight'[Len(inflight')].node = coordinator_id]_vars

\* C20 witness: a member of a generation has had its JoinGroup answered with
\* one of the two codes, and the coordinator is forgotten
C20_CoordinatorMovedDelivered ==
  JoinReplyFailed /\ join_future.val \in CoordinatorMoved
    /\ coordinator_id = None /\ conn = "ready"
    /\ generation >= 0 /\ member_id # UNKNOWN_MEMBER_ID

\* what the SyncGroup request of the adopted reply has to carry
SyncData == IF joined.l = joined.m THEN joined.pa ELSE "empty"

\* C21: after a NoError JoinGroup reply _perform_assignment is called if and
\* only if the reply's leader_id equals its member_id; the leader's SyncGroup
\* request carries what _perform_assignment returned, the follower's carries
\* an empty assignment.
C21_LeaderAssigns ==
  /\ [][JoinAdopted =>
          /\ (joined'.pa # "none") <=> (joined'.l = joined'.m)
          /\ Sent("sync") =>
               inflight'[Len(inflight')].data =
                 (IF joined'.l = joined'.m THEN joined'.pa ELSE "empty")]_vars
  /\ [](\A i \in InFlightOf("sync") :
          joined # NoJoin /\ inflight[i].data = SyncData
            /\ inflight[i].data # "raise")

\* C21 witness: the elected leader's SyncGroup, carrying the assignment
\* _perform_assignment returned, is in flight
C21_LeaderSyncInFlight ==
  \E i \in InFlightOf("sync") :
    joined.l = joined.m /\ joined.pa \in Assignments
      /\ inflight[i].data = joined.pa

\* a Heartbeat reply has just been handled
HeartbeatReplied == ret = "heartbeat_reply"

\* C22: a Heartbeat reply changes the coordinator's fields exactly so:
\* NoError nothing; GroupCoordinatorNotAvailable / NotCoordinatorForGroup
\* clear coordinator_id and leave rejoin_needed and member_id; RebalanceInProgress
\* and IllegalGeneration set rejoin_needed and leave member_id and
\* coordinator_id; UnknownMemberId resets member_id and sets rejoin_needed;
\* none changes generation; every reply but NoError fails the future.
C22_HeartbeatReplyEffects ==
  [][HeartbeatReplied' =>
       /\ HeadIs("heartbeat") /\ inflight' = Tail(inflight)
       /\ UNCHANGED <<generation, protocol, needs_join_prepare>>
       /\ exc' = "none" =>
            UNCHANGED <<coordinator_id, rejoin_needed, member_id>>
       /\ exc' \in CoordinatorMoved =>
            coordinator_id' = None /\ UNCHANGED <<rejoin_needed, member_id>>
       /\ exc' \in {"RebalanceInProgressError", "IllegalGenerationError"} =>
            rejoin_needed' /\ UNCHANGED <<member_id, coordinator_id>>
       /\ exc' = "UnknownMemberIdError" =>
            /\ member_id' = UNKNOWN_MEMBER_ID /\ rejoin_needed'
            /\ UNCHANGED coordinator_id
       /\ exc' \notin ({"none", "UnknownMemberIdError"} \cup CoordinatorMoved
                         \cup {"RebalanceInProgressError",
                               "IllegalGenerationError"}) =>
            UNCHANGED <<coordinator_id, rejoin_needed, member_id>>
       \* the future fails exactly when the reply is not NoError: the failure
       \* callback leaves the session clock, the success callback restarts it
       /\ exc' # "none" => receive_age' = receive_age
       /\ exc' = "none" => receive_age' = 0]_vars

\* C22 witness: a stable member has had a Heartbeat answered with
\* IllegalGeneration
C22_IllegalGenerationHeartbeat ==
  HeartbeatReplied /\ exc = "IllegalGenerationError" /\ rejoin_needed
    /\ member_id # UNKNOWN_MEMBER_ID /\ coordinator_id # None /\ generation >= 0

\* the state is not heartbeatable for the task
NotHeartbeatable == generation < 0 \/ rejoin_needed \/ coordinator_unknown

\* C23: a firing of the HeartbeatTask with generation < 0, rejoin_needed true
\* or the coordinator unknown sends no Heartbeat, does not set
\* request_in_flight, does not touch the clock and does not reschedule the
\* task; with generation < 0 or rejoin_needed true it also leaves every
\* coordinator field, coordinator_id included, as it was.
C23_SkippedFiring ==
  /\ [][(NotHeartbeatable /\ HeartbeatTaskFires) =>
          /\ NothingSentOrScheduled /\ ~request_in_flight'
          /\ UNCHANGED clockVars
          /\ ret' = "heartbeat_skipped"]_vars
  /\ [][((generation < 0 \/ rejoin_needed) /\ HeartbeatTaskFires) =>
          UNCHANGED coordVars]_vars
  /\ [](ret = "heartbeat_skipped" => NotHeartbeatable)

\* C23 witness: the task has fired while a rejoin was needed and the
\* coordinator's connection was lost; coordinator_id is still set
C23_SkippedWhileRejoinNeeded ==
  ret = "heartbeat_skipped" /\ rejoin_needed /\ generation >= 0
    /\ coordinator_id # None /\ is_disconnected
    /\ scheduled = <<>> /\ ~request_in_flight

\* a Heartbeat request fails in this step: by its reply's error code, or in
\* the transport
HeartbeatFails ==
  \/ ret' = "heartbeat_reply" /\ exc' # "none"
  \/ Draining /\ HeadIs("heartbeat") /\ inflight' = Tail(inflight)

\* HeartbeatTask.reset() is called in this step: by ensure_active_group after
\* _on_join_complete, or by _handle_group_coordinator_response
ResetCalled ==
  \/ pc = "eag_poll_join" /\ join_future.state = "ok" /\ pc' = "eag_loop"
  \/ disc_in_flight /\ ~disc_in_flight' /\ coordinator_id = None
       /\ coordinator_id' # None /\ generation > 0

C25_ResetSchedulesOnce ==
  /\ [][ResetCalled =>
          /\ receive_age' = 0
          /\ scheduled' = (IF request_in_flight THEN <<>> ELSE <<0>>)
          /\ UNCHANGED <<request_in_flight, send_age>>]_vars
  /\ [](Len(scheduled) <= 1)

\* C25 witness: ensure_active_group has just called reset() for a member
\* that rejoined, with no Heartbeat in flight
C25_ResetAfterRejoin ==
  pc = "eag_loop" /\ joined.args # <<>> /\ joined.was >= 0
    /\ ~request_in_flight /\ scheduled = <<0>> /\ receive_age = 0

\* the oldest request in flight fails in the transport in this step
TransportFailure == Draining /\ inflight' = Tail(inflight)

\* C26: a transport failure of any request sent to the coordinator
\* (JoinGroup, SyncGroup, Heartbeat or LeaveGroup) marks the coordinator dead
\* (coordinator_id becomes unset) and fails the future of the operation.
C26_TransportFailureMarksDead ==
  [][TransportFailure =>
       /\ coordinator_id' = None
       /\ Head(inflight).type \in {"join", "sync"} =>
            join_future' = Failed("ConnectionError")
       /\ Head(inflight).type = "heartbeat" =>
            ~request_in_flight' /\ scheduled' = <<RetryBackoff>>]_vars

\* the last join was completed and the membership has been invalidated since
\* with its identity intact: by a Heartbeat reply carrying RebalanceInProgress
\* (or IllegalGeneration, which has the same effect)
Invalidated ==
  completed /\ rejoin_needed /\ generation >= 0 /\ member_id # UNKNOWN_MEMBER_ID

\* a close() call begins or ends in this step
CloseStep ==
  \/ pc = "idle" /\ (pc' = "close_poll_leave" \/ ret' = "close_ok")
  \/ pc = "close_poll_leave" /\ ret' = "close_ok"

\* C27: once a Heartbeat reply carrying RebalanceInProgress has been handled
\* in a stable membership, the next ensure_active_group() call finds
\* rejoin_needed true: it does not return at once, it calls _on_join_prepare
\* with the generation and member_id of that membership, and the JoinGroup it
\* sends carries the unchanged member_id.
C27_RebalanceObserved ==
  \* the reply sets rejoin_needed and leaves the identity
  /\ [][(HeartbeatReplied' /\ exc' = "RebalanceInProgressError") =>
          rejoin_needed' /\ UNCHANGED <<generation, member_id, completed>>]_vars
  \* from then on the membership stays invalidated, with the same generation
  \* and member_id, until a JoinGroup of its own is answered or close() runs
  /\ [][Invalidated =>
          \/ Invalidated' /\ UNCHANGED <<generation, member_id>>
          \/ HeadIs("join") /\ inflight' # inflight
          \/ CloseStep]_vars
  \* the first ensure_active_group() call in that state prepares and goes on
  /\ [][(Invalidated /\ prepares = 0 /\ ensure_active_group) =>
          pc' = "eag_loop" /\ ret' # "eag_ok" /\ prepares' = 1]_vars
  /\ [][Sent("join") =>
          inflight'[Len(inflight')].member_id = member_id]_vars

\* C27 witness: the JoinGroup of the call that followed the RebalanceInProgress
\* reply is in flight, carrying the member_id of the completed membership
C27_RejoinAfterRebalance ==
  Invalidated /\ prepares = 1 /\ join_sent = 1 /\ HeadIs("join")
    /\ Head(inflight).member_id = member_id
    /\ Head(inflight).generation = generation

\* ------------------------------------------- the session runs out (C28)
\* a stable membership: ensure_active_group() has just returned after
\* _on_join_complete and heartbeat_task.reset()
StableInit ==
  /\ generation \in Generations
  /\ member_id \in Members
  /\ protocol \in Protocols
  /\ coordinator_id \in Nodes
  /\ rejoin_needed = FALSE
  /\ needs_join_prepare = TRUE
  /\ send_age \in 0..HeartbeatInterval
  /\ receive_age = 0
  /\ request_in_flight = FALSE
  /\ scheduled = <<0>>
  /\ conn = "ready"
  /\ inflight = <<>>
  /\ disc_in_flight = FALSE
  /\ pc = "idle"
  /\ caller = "none"
  /\ join_future = NoFuture
  /\ disc_future = NoFuture
  /\ ret = "eag_ok"
  /\ exc = "none"
  /\ closes = 0
  /\ completed = TRUE
  /\ prepares = 0
  /\ join_sent = 0
  /\ joined = NoJoin

\* the application only polls and no Heartbeat succeeds any more: every
\* reply carries an error, or the request fails in the transport, or it is
\* never answered
ExpiryNext ==
  \/ heartbeat_skip
  \/ heartbeat_session_expired
  \/ heartbeat_defer
  \/ heartbeat_send
  \/ /\ HeadIs("heartbeat")
     /\ \E code \in Codes \ {0} : handle_heartbeat_response(code)
  \/ disconnect
  \/ failed_request
  \/ tick

\* time passes, and poll() runs the task when it is due
ExpirySpec ==
  /\ StableInit /\ [][ExpiryNext]_vars
  /\ WF_vars(tick)
  /\ WF_vars(HeartbeatTaskFires)

\* the task is neither pending nor waiting for a reply: it will not run again
TaskStopped == scheduled = <<>> /\ ~request_in_flight

\* C28 (as stated): if after a stable join no Heartbeat succeeds any more
\* (the outstanding one is never answered, or every one fails), the
\* HeartbeatTask eventually fires, clears coordinator_id and stops
\* rescheduling itself.
C28_Stated == <>(TaskStopped /\ coordinator_id = None)

\* C28 (amended): if after a stable join no Heartbeat succeeds any more, then
\* eventually either a Heartbeat stays outstanding for ever (the task is not
\* pending then and never fires), or the task has stopped rescheduling itself
\* with coordinator_id unset or rejoin_needed set: a reply that set
\* rejoin_needed makes the task return at its first test, coordinator_id
\* untouched.
C28_SessionRunsOut ==
  /\ <>[](request_in_flight \/
            (TaskStopped /\ (coordinator_id = None \/ rejoin_needed)))
  /\ [](request_in_flight => scheduled = <<>>)
  /\ [][(ret' = "session_expired") =>
          session_expired /\ coordinator_id' = None /\ TaskStopped']_vars

\* C28 witness: Heartbeats failed until the session had run out, and the
\* task has found it expired and marked the coordinator dead
C28_ExpiredAfterFailures ==
  ret = "session_expired" /\ coordinator_id = None /\ TaskStopped
    /\ ~rejoin_needed /\ ready

\* ------------------------------------------------- the code lookup (C29)
\* a reply has arrived whose error_code a handler is about to look up
LookupInit ==
  /\ \E c \in (0 - MaxCode)..MaxCode :
       inflight = <<[type |-> "reply", error_code |-> c]>>
  /\ generation = DEFAULT_GENERATION_ID
  /\ member_id = UNKNOWN_MEMBER_ID
  /\ protocol = "none"
  /\ coordinator_id = None
  /\ rejoin_needed = TRUE
  /\ needs_join_prepare = TRUE
  /\ send_age = HeartbeatInterval
  /\ receive_age = SessionTimeout
  /\ request_in_flight = FALSE
  /\ scheduled = <<>>
  /\ conn = "ready"
  /\ disc_in_flight = FALSE
  /\ pc = "idle"
  /\ caller = "none"
  /\ join_future = NoFuture
  /\ disc_future = NoFuture
  /\ ret = "none"
  /\ exc = "none"
  /\ closes = 0
  /\ completed = FALSE
  /\ prepares = 0
  /\ join_sent = 0
  /\ joined = NoJoin

\* error_type = Errors.for_code(response.error_code)
lookup ==
  /\ ret = "none"
  /\ ret' = "for_code"
  /\ exc' = for_code(Head(inflight).error_code)
  /\ UNCHANGED <<coordVars, clockVars, taskVars, netVars, ctlVars, closes,
                 histVars>>

LookupSpec == LookupInit /\ [][lookup]_vars

\* the broker error kinds whose errno is c
KindsOf(c) == {i \in DOMAIN BrokerErrors : BrokerErrors[i].errno = c}

\* C29: for_code(c) returns, for every integer c, the one broker error kind
\* whose errno is c when there is one, and UnknownError otherwise; code 0 maps
\* to NoError; different kinds have different errno values, so that no kind
\* is shadowed in the table.
C29_ForCode ==
  ret = "for_code" =>
    LET c == Head(inflight).error_code IN
    /\ KindsOf(c) # {} =>
         /\ Cardinality(KindsOf(c)) = 1
         /\ \A i \in KindsOf(c) : exc = BrokerErrors[i].name
    /\ KindsOf(c) = {} => exc = "UnknownError"
    /\ c = 0 => exc = "NoError"
    /\ \A i, j \in DOMAIN BrokerErrors :
         i # j => /\ BrokerErrors[i].errno # BrokerErrors[j].errno
                  /\ BrokerErrors[i].name # BrokerErrors[j].name
    /\ \A i \in DOMAIN BrokerErrors :
         for_code(BrokerErrors[i].errno) = BrokerErrors[i].name

\* C29 witness: a code no kind has was looked up and gave UnknownError
C29_UnmappedCode ==
  ret = "for_code" /\ KindsOf(Head(inflight).error_code) = {}
    /\ Head(inflight).error_code > 0 /\ exc = "UnknownError"

\* ------------------------------------- joining with retriable failures (C30)
\* the reply codes of a broker that fails only retriably: NoError, the
\* errors whose class is retriable, and those ensure_active_group retries
RetriableCodes ==
  {c \in Codes : \/ for_code(c) = "NoError"
                 \/ Retriable(for_code(c))
                 \/ for_code(c) \in immediate_retry_errors}

\* ensure_coordinator_known retries only the errors whose class is retriable
DiscoveryCodes ==
  {c \in Codes : for_code(c) = "NoError" \/ Retriable(for_code(c))}

\* the application calls ensure_active_group() and polls; the broker answers
\* with NoError or a retriable error, the transport may fail, and
\* _perform_assignment returns an assignment
JoinNext ==
  \/ ensure_active_group
  \/ eag_loop
  \/ eck_return
  \/ eck_wait_connection
  \/ eck_poll_returns
  \/ \E node_ok \in BOOLEAN : send_group_metadata_request(node_ok)
  \/ /\ disc_in_flight
     /\ \E code \in DiscoveryCodes, node \in Nodes :
          handle_group_coordinator_response(code, node, TRUE)
  \/ failed_group_metadata_request
  \/ eck_discovery_done
  \/ eck_metadata_updated
  \/ perform_group_join
  \/ /\ HeadIs("join")
     /\ \E r \in JoinGroupResponses :
          /\ r[1] \in RetriableCodes /\ r[6] \in Assignments
          /\ handle_join_group_response(r[1], r[2], r[3], r[4], r[5], r[6])
  \/ /\ HeadIs("sync")
     /\ \E code \in RetriableCodes, a \in Assignments :
          handle_sync_group_response(code, a)
  \/ eag_join_succeeded
  \/ eag_join_failed
  \/ heartbeat_skip
  \/ heartbeat_session_expired
  \/ heartbeat_defer
  \/ heartbeat_send
  \/ /\ HeadIs("heartbeat")
     /\ \E code \in RetriableCodes : handle_heartbeat_response(code)
  \/ disconnect
  \/ connected
  \/ tick
  \/ failed_request

JoinSpec == Init /\ [][JoinNext]_vars

\* C30: with a broker that answers discovery, JoinGroup and SyncGroup with
\* NoError after finitely many retriable failures, ensure_active_group()
\* returns with the membership stable (the join completed, no rejoin needed)
\* and does not raise.
C30_ReturnsStable ==
  /\ ~EagRaised
  /\ EagReturned => (completed /\ ~rejoin_needed /\ generation >= 0)

\* ------------------------------------------------ heartbeats after close (C31)
\* a JoinGroup reply carrying NoError is handled in this step
JoinGroupSucceeds ==
  \E r \in JoinGroupResponses :
    /\ for_code(r[1]) = "NoError"
    /\ handle_join_group_response(r[1], r[2], r[3], r[4], r[5], r[6])

\* C31: close() returns with generation < 0 and rejoin_needed true; the
\* generation stays below 0 until a JoinGroup reply with NoError is handled;
\* and while it is below 0 no Heartbeat request is sent, and a firing of the
\* HeartbeatTask (left in the scheduler, or put there by the reply of a
\* Heartbeat that was in flight at close) sends nothing and does not
\* reschedule the task.
C31_NoHeartbeatAfterClose ==
  /\ [](CloseReturned => generation < 0 /\ rejoin_needed)
  /\ [][(generation < 0 /\ generation' >= 0) => JoinGroupSucceeds]_vars
  /\ [][generation < 0 => ~Sent("heartbeat")]_vars
  /\ [][(generation < 0 /\ HeartbeatTaskFires) =>
          NothingSentOrScheduled /\ ret' = "heartbeat_skipped"]_vars

\* C31 witness: after close() the reply of a Heartbeat that was in flight at
\* close has rescheduled the task, and the task has fired and stopped
C31_SkippedAfterClose ==
  /\ generation < 0 /\ ret = "heartbeat_skipped"
  /\ scheduled = <<>> /\ ~request_in_flight
  /\ InFlightOf("heartbeat") = {}

\* ------------------------------------------- heartbeating while stable (C32)
\* the membership is stable and the application is in no blocking call
StableIdle ==
  /\ ~rejoin_needed /\ generation >= 0 /\ completed
  /\ coordinator_id # None /\ ready
  /\ pc = "idle"

\* C32: whenever the membership is stable (rejoin_needed false,
\* generation >= 0, coordinator_id set and its connection ready,
\* _on_join_complete done) and no blocking call is in progress, a Heartbeat
\* request is in flight or a firing of the HeartbeatTask is pending in the
\* scheduler.
C32_HeartbeatAlive ==
  StableIdle => (InFlightOf("heartbeat") # {} \/ scheduled # <<>>)

====
